---- MODULE Spec2Model ----
(***************************************************************************)
(* HUB75 LED panel controller (RP2040, two cores).                         *)
(*   core 0: setup()/loop()   - USB CDC reception, Base64 / raw binary     *)
(*                              frame decoding, BCM conversion             *)
(*   core 1: setup1()/loop1() - hub75_refresh(), the panel scan            *)
(* Buffers are byte arrays indexed from 0, as in the C source.             *)
(***************************************************************************)
EXTENDS Integers, Sequences, FiniteSets, TLC

\* ------------------------------------------------------------------------
\* Bounds of the exploration
\* ------------------------------------------------------------------------
MaxStream == 6       \* bytes the host sends in one behaviour (byte-wise specification)
MaxAvail == 3        \* bytes that may wait unread in the USB CDC receive queue
RecvWidth == 1       \* panel geometry of the byte-wise receive specification
RecvHeight == 2
RecvMargin == 2      \* slack of RECV_BUFFER_SIZE in the byte-wise specification
ScanWidth == 9       \* panel geometry of the refresh specification
ScanHeight == 4
MaxDecodeLen == 5    \* longest input of a single base64_decode call (decoder specification)
MaxDecodeOut == 3    \* largest max_output of such a call
MaxPayload == 4      \* longest payload encoded and decoded again
MaxText == 8         \* bytes the host sends in one behaviour (text-line specification)
BcmWidth == 2        \* panel geometry of the conversion specification
BcmHeight == 4
TearWidth == 2       \* panel geometry of the specification of conversion against refresh
TearHeight == 2
MaxCycles == 3       \* refresh cycles whose kind is remembered
AddrWidth == 1       \* panel width of the row-address specification
LiveWidth == 1       \* panel geometry of the fair refresh specification
LiveHeight == 2
MaxItems == 3        \* frames and lines the host sends in the stream specification

\* Byte values the host sends in the byte-wise specification:
\* 0x00, '\n', '\r', '=', 'A', 0xFF
Bytes == {0, 10, 13, 61, 65, 255}

\* ------------------------------------------------------------------------
\* Program constants
\* ------------------------------------------------------------------------
COLOR_DEPTH == 6
BINARY_MAGIC_0 == 255
BINARY_MAGIC_1 == 0
max_iterations == 1024
CH_NEWLINE == 10
CH_RETURN == 13
CH_PAD == 61
ACK_K == 75
ACK_E == 69
PIO_FIFO_DEPTH == 8  \* TX FIFO joined with the RX FIFO: 4 + 4 words

\* Build configurations of hub75_config.h: DISPLAY_WIDTH 128, DISPLAY_HEIGHT 32
\* (default) or 64 (-D DISPLAY_HEIGHT=64), RECV_BUFFER_SIZE slack 200.
BuildConfigs == { [width |-> 128, height |-> h, margin |-> 200] : h \in {32, 64} }

\* The scaled-down geometry the byte-wise receive specification explores. It is
\* admitted (InitRecv) only if it agrees with both build configurations on whether
\* the Base64 text of one frame fits the receive buffer.
RecvConfig ==
    [width |-> RecvWidth, height |-> RecvHeight, margin |-> RecvMargin, pio |-> TRUE]

\* The geometry of the conversion specification.
BcmConfig ==
    [width |-> BcmWidth, height |-> BcmHeight, margin |-> RecvMargin, pio |-> TRUE]

\* The geometries of the refresh specification: HUB75_USE_PIO=1 and =0.
ScanConfigs ==
    { [width |-> ScanWidth, height |-> ScanHeight, margin |-> RecvMargin, pio |-> p] :
          p \in BOOLEAN }

VARIABLES
    cfg,                    \* build configuration: width, height, buffer slack
    rx,                     \* USB CDC bytes received and not yet read (Serial)
    tx,                     \* bytes written with Serial.write, oldest first
    fed,                    \* every byte the host has sent so far, oldest first
    recv_buffer,            \* uint8_t recv_buffer[RECV_BUFFER_SIZE]
    recv_pos,               \* size_t recv_pos
    binary_mode,            \* bool binary_mode
    binary_bytes_remaining, \* size_t binary_bytes_remaining
    frame_buffer,           \* uint16_t frame_buffer[2][W*H], viewed as bytes
    write_buf,              \* volatile uint8_t write_buf
    read_buf,               \* volatile uint8_t read_buf
    new_frame,              \* volatile bool new_frame
    bcm_planes,             \* uint8_t bcm_planes[SCAN_ROWS][COLOR_DEPTH][DISPLAY_WIDTH]
    wr,                     \* every index the receive side has written, per buffer
    handed,                 \* number of calls of convert_to_bcm, and the frame the last one got
    pc1,                    \* core 1: the statement of hub75_refresh() to run next
    bit,                    \* int bit of hub75_refresh
    row,                    \* int row of hub75_refresh
    x,                      \* int x of hub75_refresh
    gpio,                   \* the pins: OE, LAT, CLK, RGB (GP0-5), ADDR (GP9-12)
    tx_fifo,                \* TX FIFO of PIO state machine sm_data
    pio_sm,                 \* PIO state machine: program counter, OSR and whether it is full
    panel,                  \* panel: bytes clocked in since the last latch, and the row latched
    scan,                   \* this refresh cycle so far: pairs visited, steps of the iteration, lit time
    b64,                    \* a single call of the Base64 decoder: its input and its result
    conv,                   \* core 0: where convert_to_bcm() stands when it runs write by write
    tear                    \* the bytes read by this refresh cycle: old planes, new planes; past cycles

recvVars == << rx, tx, fed, recv_buffer, recv_pos, binary_mode,
               binary_bytes_remaining, frame_buffer, write_buf, read_buf,
               new_frame, bcm_planes, wr, handed, conv >>
scanVars == << pc1, bit, row, x, gpio, tx_fifo, pio_sm, panel, scan, tear >>
vars == << cfg, recvVars, scanVars, b64 >>

\* ------------------------------------------------------------------------
\* hub75_config.h
\* ------------------------------------------------------------------------
DISPLAY_WIDTH == cfg.width
DISPLAY_HEIGHT == cfg.height
SCAN_ROWS == DISPLAY_HEIGHT \div 2
FrameSizeOf(c) == c.width * c.height * 2
RecvBufferSizeOf(c) == FrameSizeOf(c) + (FrameSizeOf(c) \div 254) + c.margin
FRAME_SIZE_RGB565 == FrameSizeOf(cfg)
RECV_BUFFER_SIZE == RecvBufferSizeOf(cfg)

\* ------------------------------------------------------------------------
\* Integer helpers for C's shifts and masks
\* ------------------------------------------------------------------------
Pow2(n) == 2 ^ n
Shr(v, n) == v \div Pow2(n)
BitOf(v, b) == (v \div Pow2(b)) % 2
Min(a, b) == IF a < b THEN a ELSE b

\* size_t is 32 bits wide on the RP2040. A size_t value of 2^31 or more is held as
\* the negative integer with the same 32-bit pattern (u - 2^32), so a subtraction
\* that wraps below zero keeps its C value, and UGt is C's unsigned a > b.
UGt(a, b) == IF (a < 0) = (b < 0) THEN a > b ELSE a < 0

\* ------------------------------------------------------------------------
\* Base64 decoder
\* ------------------------------------------------------------------------
\* b64_table[c]: 'A'-'Z' -> 0..25, 'a'-'z' -> 26..51, '0'-'9' -> 52..61,
\* '+' -> 62, '/' -> 63, every other byte -> 64.
b64_table(c) ==
    IF c >= 65 /\ c <= 90 THEN c - 65
    ELSE IF c >= 97 /\ c <= 122 THEN c - 71
    ELSE IF c >= 48 /\ c <= 57 THEN c + 4
    ELSE IF c = 43 THEN 62
    ELSE IF c = 47 THEN 63
    ELSE 64

\* A length that ignores the padding.
base64_decode_length_nopad(input, len) == (len * 3) \div 4

\* input is an array indexed from 0; len is the number of bytes of it used.
base64_decode_length(input, len) ==
    IF len = 0 THEN 0
    ELSE LET p1 == IF len >= 1 /\ input[len - 1] = CH_PAD THEN 1 ELSE 0
             p2 == IF len >= 2 /\ input[len - 2] = CH_PAD THEN 1 ELSE 0
         IN (len * 3) \div 4 - (p1 + p2)

\* accum is a uint32_t of which only bits 0..11 are ever read ((accum >> bits) & 0xFF
\* with bits <= 4); the bits shifted out above bit 23 are dropped here rather than
\* above bit 31.
AccumShift(accum, val) == (accum % Pow2(18)) * 64 + val

\* The loop with the capacity test `out_len > max_output`.
RECURSIVE b64_loop_gt(_, _, _, _, _)
b64_loop_gt(input, len, max_output, i, st) ==
    IF i >= len THEN [st EXCEPT !.ret = st.out_len]
    ELSE LET c == input[i]
             val == b64_table(c)
         IN IF c = CH_PAD THEN [st EXCEPT !.ret = st.out_len]
            ELSE IF val = 64 THEN b64_loop_gt(input, len, max_output, i + 1, st)
            ELSE LET accum == AccumShift(st.accum, val)
                     bits == st.bits + 6
                 IN IF bits >= 8
                    THEN IF st.out_len > max_output
                         THEN [st EXCEPT !.ret = 0, !.accum = accum, !.bits = bits - 8]
                         ELSE b64_loop_gt(input, len, max_output, i + 1,
                                  [st EXCEPT !.accum = accum,
                                             !.bits = bits - 8,
                                             !.output = IF st.out_len \in DOMAIN @
                                                        THEN [@ EXCEPT ![st.out_len] =
                                                                  Shr(accum, bits - 8) % 256]
                                                        ELSE @,
                                             !.written = @ \cup {st.out_len},
                                             !.out_len = @ + 1])
                    ELSE b64_loop_gt(input, len, max_output, i + 1,
                             [st EXCEPT !.accum = accum, !.bits = bits])

\* The for loop of base64_decode from index i on. st carries out_len, accum, bits,
\* the output array, the set of output indices written, and the return value once
\* the function has returned (ret = -1 while the loop runs).
RECURSIVE b64_loop(_, _, _, _, _)
b64_loop(input, len, max_output, i, st) ==
    IF i >= len THEN [st EXCEPT !.ret = st.out_len]
    ELSE LET c == input[i]
             val == b64_table(c)
         IN IF c = CH_PAD THEN [st EXCEPT !.ret = st.out_len]
            ELSE IF val = 64 THEN b64_loop(input, len, max_output, i + 1, st)
            ELSE LET accum == AccumShift(st.accum, val)
                     bits == st.bits + 6
                 IN IF bits >= 8
                    THEN IF st.out_len >= max_output
                         THEN [st EXCEPT !.ret = 0, !.accum = accum, !.bits = bits - 8]
                         ELSE b64_loop(input, len, max_output, i + 1,
                                  [st EXCEPT !.accum = accum,
                                             !.bits = bits - 8,
                                             !.output[st.out_len] = Shr(accum, bits - 8) % 256,
                                             !.written = @ \cup {st.out_len},
                                             !.out_len = @ + 1])
                    ELSE b64_loop(input, len, max_output, i + 1,
                             [st EXCEPT !.accum = accum, !.bits = bits])

\* base64_decode(input, len, output, max_output): the return value, the output
\* array afterwards and the output indices it wrote.
base64_decode(input, len, output, max_output) ==
    b64_loop(input, len, max_output, 0,
             [out_len |-> 0, accum |-> 0, bits |-> 0, output |-> output,
              written |-> {}, ret |-> -1])

\* ------------------------------------------------------------------------
\* Gamma table and BCM conversion
\* ------------------------------------------------------------------------
\* gamma_tbl[i] = (uint8_t)(powf(i / 255.0f, 2.2f) * 255.0f + 0.5f), as filled by
\* init_gamma(2.2f) in hub75_gpio_init; a tuple, so entry i is GammaValues[i + 1].
GammaValues == <<
    0, 0, 0, 0, 0, 0, 0, 0, 0, 0, 0, 0, 0, 0, 0, 1,
    1, 1, 1, 1, 1, 1, 1, 1, 1, 2, 2, 2, 2, 2, 2, 2,
    3, 3, 3, 3, 3, 4, 4, 4, 4, 5, 5, 5, 5, 6, 6, 6,
    6, 7, 7, 7, 8, 8, 8, 9, 9, 9, 10, 10, 11, 11, 11, 12,
    12, 13, 13, 13, 14, 14, 15, 15, 16, 16, 17, 17, 18, 18, 19, 19,
    20, 20, 21, 22, 22, 23, 23, 24, 25, 25, 26, 26, 27, 28, 28, 29,
    30, 30, 31, 32, 33, 33, 34, 35, 35, 36, 37, 38, 39, 39, 40, 41,
    42, 43, 43, 44, 45, 46, 47, 48, 49, 49, 50, 51, 52, 53, 54, 55,
    56, 57, 58, 59, 60, 61, 62, 63, 64, 65, 66, 67, 68, 69, 70, 71,
    73, 74, 75, 76, 77, 78, 79, 81, 82, 83, 84, 85, 87, 88, 89, 90,
    91, 93, 94, 95, 97, 98, 99, 100, 102, 103, 105, 106, 107, 109, 110, 111,
    113, 114, 116, 117, 119, 120, 121, 123, 124, 126, 127, 129, 130, 132, 133, 135,
    137, 138, 140, 141, 143, 145, 146, 148, 149, 151, 153, 154, 156, 158, 159, 161,
    163, 165, 166, 168, 170, 172, 173, 175, 177, 179, 181, 182, 184, 186, 188, 190,
    192, 194, 196, 197, 199, 201, 203, 205, 207, 209, 211, 213, 215, 217, 219, 221,
    223, 225, 227, 229, 231, 234, 236, 238, 240, 242, 244, 246, 248, 251, 253, 255 >>
gamma_tbl(i) == GammaValues[i + 1]

\* pixels[k] of a frame held as bytes (the RP2040 is little-endian).
PixelAt(frame, k) == frame[2 * k] + 256 * frame[2 * k + 1]

\* A depth reduction that masks the low bits instead of shifting them out.
ChannelValues_mask(frame, r, col) ==
    LET p_up == PixelAt(frame, r * DISPLAY_WIDTH + col)
        p_lo == PixelAt(frame, (r + SCAN_ROWS) * DISPLAY_WIDTH + col)
        keep == Pow2(COLOR_DEPTH)
    IN << gamma_tbl((Shr(p_up, 11) % 32) * 8) % keep,
          gamma_tbl((Shr(p_up, 5) % 64) * 4) % keep,
          gamma_tbl((p_up % 32) * 8) % keep,
          gamma_tbl((Shr(p_lo, 11) % 32) * 8) % keep,
          gamma_tbl((Shr(p_lo, 5) % 64) * 4) % keep,
          gamma_tbl((p_lo % 32) * 8) % keep >>

\* The six depth-reduced channel values of column col of scan row r:
\* r0, g0, b0 of the upper pixel and r1, g1, b1 of the lower one.
ChannelValues(frame, r, col) ==
    LET p_up == PixelAt(frame, r * DISPLAY_WIDTH + col)
        p_lo == PixelAt(frame, (r + SCAN_ROWS) * DISPLAY_WIDTH + col)
        down == 8 - COLOR_DEPTH
    IN << Shr(gamma_tbl((Shr(p_up, 11) % 32) * 8), down),
          Shr(gamma_tbl((Shr(p_up, 5) % 64) * 4), down),
          Shr(gamma_tbl((p_up % 32) * 8), down),
          Shr(gamma_tbl((Shr(p_lo, 11) % 32) * 8), down),
          Shr(gamma_tbl((Shr(p_lo, 5) % 64) * 4), down),
          Shr(gamma_tbl((p_lo % 32) * 8), down) >>

\* A packing with red and blue exchanged.
PackedBits_bgr(ch, b) ==
    BitOf(ch[3], b) + 2 * BitOf(ch[2], b) + 4 * BitOf(ch[1], b)
    + 8 * BitOf(ch[6], b) + 16 * BitOf(ch[5], b) + 32 * BitOf(ch[4], b)

\* packed byte of one (row, bit, x): bit k of it is bit b of channel k.
PackedBits(ch, b) ==
    BitOf(ch[1], b) + 2 * BitOf(ch[2], b) + 4 * BitOf(ch[3], b)
    + 8 * BitOf(ch[4], b) + 16 * BitOf(ch[5], b) + 32 * BitOf(ch[6], b)

\* convert_to_bcm(pixels): the bcm_planes it leaves.
convert_to_bcm(frame) ==
    [r \in 0..(SCAN_ROWS - 1) |->
        [b \in 0..(COLOR_DEPTH - 1) |->
            [col \in 0..(DISPLAY_WIDTH - 1) |->
                PackedBits(ChannelValues(frame, r, col), b)]]]

\* ------------------------------------------------------------------------
\* Core 0: loop()
\* ------------------------------------------------------------------------
\* The variables loop() reads and writes, as one record.
Core0 ==
    [ rx |-> rx, tx |-> tx, recv_buffer |-> recv_buffer, recv_pos |-> recv_pos,
      binary_mode |-> binary_mode,
      binary_bytes_remaining |-> binary_bytes_remaining,
      frame_buffer |-> frame_buffer, write_buf |-> write_buf,
      read_buf |-> read_buf, new_frame |-> new_frame,
      bcm_planes |-> bcm_planes, wr |-> wr, handed |-> handed ]

NoWrites == [recv |-> {}, frame |-> {}]
NotHanded == [takes |-> 0, frame |-> << >>]
\* convert_to_bcm() is not running.
ConvIdle == [pc |-> "idle", row |-> 0, x |-> 0, bit |-> 0]

\* A take that leaves new_frame set.
TakeFrame_keep(s) ==
    IF s.new_frame
    THEN [s EXCEPT !.read_buf = s.write_buf,
                   !.bcm_planes = convert_to_bcm(s.frame_buffer[s.write_buf]),
                   !.handed = [takes |-> @.takes + 1,
                               frame |-> s.frame_buffer[s.write_buf]]]
    ELSE s

\* if (new_frame) { read_buf = write_buf; new_frame = false; convert_to_bcm(...); }
TakeFrame(s) ==
    IF s.new_frame
    THEN [s EXCEPT !.read_buf = s.write_buf,
                   !.new_frame = FALSE,
                   !.bcm_planes = convert_to_bcm(s.frame_buffer[s.write_buf]),
                   !.handed = [takes |-> @.takes + 1,
                               frame |-> s.frame_buffer[s.write_buf]]]
    ELSE s

\* The three error exits of the binary path: reset and Serial.write('E').
BinaryAbort(s) ==
    [s EXCEPT !.binary_mode = FALSE,
              !.binary_bytes_remaining = 0,
              !.recv_pos = 0,
              !.tx = Append(@, ACK_E)]

\* A link read that returns every available byte, also beyond the number asked.
ReadBytesCount_all(s, to_read) == Len(s.rx)

\* Serial.readBytes(dest + offset, to_read): the bytes are there (to_read is at
\* most available), so it reads to_read of them.
ReadBytesCount(s, to_read) == Min(to_read, Len(s.rx))

\* The while loop of the binary path. The result says whether loop() returned
\* from inside it (an error exit).
RECURSIVE binary_loop(_, _, _, _)
binary_loop(s, available, offset, target) ==
    IF available > 0 /\ s.binary_bytes_remaining > 0
    THEN LET to_read == Min(available, s.binary_bytes_remaining)
         IN IF offset + to_read > FRAME_SIZE_RGB565
            THEN [st |-> BinaryAbort(s), returned |-> TRUE]
            ELSE LET actual == ReadBytesCount(s, to_read)
                     s1 == [s EXCEPT
                              !.rx = SubSeq(@, actual + 1, Len(@)),
                              !.frame_buffer[target] =
                                  [i \in DOMAIN @ |->
                                      IF i >= offset /\ i < offset + actual
                                      THEN s.rx[i - offset + 1] ELSE @[i]],
                              !.wr.frame = @ \cup
                                  {<<target, i>> : i \in offset..(offset + actual - 1)}]
                 IN IF actual <= 0 THEN [st |-> s1, returned |-> FALSE]
                    ELSE IF actual > s.binary_bytes_remaining
                    THEN [st |-> BinaryAbort(s1), returned |-> TRUE]
                    ELSE binary_loop(
                             [s1 EXCEPT !.binary_bytes_remaining = @ - actual],
                             available - actual, offset + actual, target)
    ELSE [st |-> s, returned |-> FALSE]

\* A completion test that is off by one byte.
BinaryComplete_early(s, target) ==
    IF s.binary_bytes_remaining <= 1
    THEN [s EXCEPT !.write_buf = target,
                   !.new_frame = TRUE,
                   !.binary_mode = FALSE,
                   !.tx = Append(@, ACK_K)]
    ELSE s

\* if (binary_bytes_remaining == 0) { write_buf = target; new_frame = true; ... 'K' }
BinaryComplete(s, target) ==
    IF s.binary_bytes_remaining = 0
    THEN [s EXCEPT !.write_buf = target,
                   !.new_frame = TRUE,
                   !.binary_mode = FALSE,
                   !.tx = Append(@, ACK_K)]
    ELSE s

\* A binary path whose first read of a frame goes to the other buffer.
BinaryPath_split(s, available) ==
    LET target == IF s.binary_bytes_remaining = FRAME_SIZE_RGB565
                  THEN s.read_buf ELSE 1 - s.read_buf
        offset == FRAME_SIZE_RGB565 - s.binary_bytes_remaining
    IN IF UGt(offset, FRAME_SIZE_RGB565)
       THEN BinaryAbort(s)
       ELSE LET r == binary_loop(s, available, offset, target)
            IN IF r.returned THEN r.st ELSE BinaryComplete(r.st, target)

\* A binary path that receives into the buffer handed over last.
BinaryPath_shown(s, available) ==
    LET target == s.read_buf
        offset == FRAME_SIZE_RGB565 - s.binary_bytes_remaining
    IN IF UGt(offset, FRAME_SIZE_RGB565)
       THEN BinaryAbort(s)
       ELSE LET r == binary_loop(s, available, offset, target)
            IN IF r.returned THEN r.st ELSE BinaryComplete(r.st, target)

\* if (binary_mode) { ... return; }
BinaryPath(s, available) ==
    LET target == 1 - s.read_buf
        offset == FRAME_SIZE_RGB565 - s.binary_bytes_remaining
    IN IF UGt(offset, FRAME_SIZE_RGB565)
       THEN BinaryAbort(s)
       ELSE LET r == binary_loop(s, available, offset, target)
            IN IF r.returned THEN r.st ELSE BinaryComplete(r.st, target)

\* A '\n' branch that accepts whatever base64_decode returned.
DecodeLine_anylen(s) ==
    IF s.recv_pos > 0
    THEN LET target == 1 - s.read_buf
             d == base64_decode(s.recv_buffer, s.recv_pos,
                                s.frame_buffer[target], FRAME_SIZE_RGB565)
         IN [s EXCEPT !.frame_buffer[target] = d.output,
                      !.wr.frame = @ \cup {<<target, i>> : i \in d.written},
                      !.write_buf = target,
                      !.new_frame = TRUE,
                      !.tx = Append(@, ACK_K)]
    ELSE s

\* if (recv_pos > 0) { ... } of the '\n' branch: decode the accumulated line.
DecodeLine(s) ==
    IF s.recv_pos > 0
    THEN LET expected == base64_decode_length(s.recv_buffer, s.recv_pos)
         IN IF expected = FRAME_SIZE_RGB565
            THEN LET target == 1 - s.read_buf
                     d == base64_decode(s.recv_buffer, s.recv_pos,
                                        s.frame_buffer[target], FRAME_SIZE_RGB565)
                     s1 == [s EXCEPT !.frame_buffer[target] = d.output,
                                     !.wr.frame = @ \cup {<<target, i>> : i \in d.written}]
                 IN IF d.ret = FRAME_SIZE_RGB565
                    THEN [s1 EXCEPT !.write_buf = target,
                                    !.new_frame = TRUE,
                                    !.tx = Append(@, ACK_K)]
                    ELSE [s1 EXCEPT !.tx = Append(@, ACK_E)]
            ELSE [s EXCEPT !.tx = Append(@, ACK_E)]
    ELSE s

\* An overflow branch that resets without reporting.
StoreByte_silent(s, c) ==
    IF s.recv_pos < RECV_BUFFER_SIZE - 1
    THEN [s EXCEPT !.recv_buffer[s.recv_pos] = c,
                   !.wr.recv = @ \cup {s.recv_pos},
                   !.recv_pos = @ + 1]
    ELSE [s EXCEPT !.recv_pos = 0]

\* else if (c != '\r') { ... }: store the byte, or reset on a full buffer.
StoreByte(s, c) ==
    IF s.recv_pos < RECV_BUFFER_SIZE - 1
    THEN [s EXCEPT !.recv_buffer[s.recv_pos] = c,
                   !.wr.recv = @ \cup {s.recv_pos},
                   !.recv_pos = @ + 1]
    ELSE [s EXCEPT !.tx = Append(@, ACK_E),
                   !.recv_pos = 0]

\* A '\n' branch that keeps the rejected line in the accumulator.
TextByte_keep(s, c) ==
    IF c = CH_NEWLINE THEN DecodeLine(s)
    ELSE IF c # CH_RETURN THEN StoreByte(s, c)
    ELSE s

\* One iteration of the text-mode while loop after the magic-header check.
TextByte(s, c) ==
    IF c = CH_NEWLINE THEN [DecodeLine(s) EXCEPT !.recv_pos = 0]
    ELSE IF c # CH_RETURN THEN StoreByte(s, c)
    ELSE s

\* A test that recognizes the sentinel wherever the accumulator ends with 0xFF.
IsMagicHeader_any(s, c) ==
    s.recv_pos >= 1 /\ s.recv_buffer[s.recv_pos - 1] = BINARY_MAGIC_0 /\ c = BINARY_MAGIC_1

\* recv_pos == 1 && recv_buffer[0] == BINARY_MAGIC_0 && c == BINARY_MAGIC_1
IsMagicHeader(s, c) ==
    s.recv_pos = 1 /\ s.recv_buffer[0] = BINARY_MAGIC_0 /\ c = BINARY_MAGIC_1

\* Switch to binary mode; loop() returns.
EnterBinary(s) ==
    [s EXCEPT !.binary_mode = TRUE,
              !.binary_bytes_remaining = FRAME_SIZE_RGB565,
              !.recv_pos = 0]

\* while (Serial.available() && iterations < max_iterations) { ... }
RECURSIVE text_loop(_, _)
text_loop(s, iterations) ==
    IF Len(s.rx) > 0 /\ iterations < max_iterations
    THEN CHOOSE r \in
             { IF IsMagicHeader(s1, c) THEN EnterBinary(s1)
               ELSE text_loop(TextByte(s1, c), iterations + 1) :
                   c \in {Head(s.rx)}, s1 \in {[s EXCEPT !.rx = Tail(@)]} } : TRUE
    ELSE s

\* A loop() that returns when no byte is available before it looks at new_frame.
loop_idle(s) ==
    IF Len(s.rx) <= 0 THEN s
    ELSE LET s1 == TakeFrame(s)
         IN IF s1.binary_mode THEN BinaryPath(s1, Len(s1.rx)) ELSE text_loop(s1, 0)

\* loop(): the state it leaves when called in state s.
loop(s) ==
    LET s1 == TakeFrame(s)
        available == Len(s1.rx)
    IN IF available <= 0 THEN s1
       ELSE IF s1.binary_mode THEN BinaryPath(s1, available)
       ELSE text_loop(s1, 0)

\* ------------------------------------------------------------------------
\* The host side: standard Base64 (RFC 4648) text of a payload
\* ------------------------------------------------------------------------
\* The character of a 6-bit value.
B64Char(v) ==
    IF v < 26 THEN 65 + v
    ELSE IF v < 52 THEN 71 + v
    ELSE IF v < 62 THEN v - 4
    ELSE IF v = 62 THEN 43
    ELSE 47

\* Length of the Base64 text of n bytes, '=' padding included.
B64EncodedLen(n) == 4 * ((n + 2) \div 3)

\* Character j (from 0) of the Base64 text of the n bytes payload[0 .. n-1].
B64EncodedChar(payload, n, j) ==
    LET g == j \div 4
        k == j % 4
        b0 == payload[3 * g]
        b1 == IF 3 * g + 1 < n THEN payload[3 * g + 1] ELSE 0
        b2 == IF 3 * g + 2 < n THEN payload[3 * g + 2] ELSE 0
        sextet == CASE k = 0 -> b0 \div 4
                    [] k = 1 -> (b0 % 4) * 16 + b1 \div 16
                    [] k = 2 -> (b1 % 16) * 4 + b2 \div 64
                    [] OTHER -> b2 % 64
    IN IF k >= 2 /\ 3 * g + k > n THEN CH_PAD ELSE B64Char(sextet)

\* The Base64 text of payload[0 .. n-1], as a sequence of bytes.
B64Encode(payload, n) ==
    [j \in 1..B64EncodedLen(n) |-> B64EncodedChar(payload, n, j - 1)]

\* The text line of payload[0 .. n-1]: its Base64 text, then '\n'.
TextLine(payload, n) == B64Encode(payload, n) \o << CH_NEWLINE >>

\* Whether the Base64 text of one frame fits the accumulator of configuration c,
\* which stores a byte only while recv_pos < RECV_BUFFER_SIZE - 1.
TextFrameFits(c) == B64EncodedLen(FrameSizeOf(c)) <= RecvBufferSizeOf(c) - 1

\* The raw binary frame of payload P: the sentinel, then the payload verbatim.
BinaryFrame(P) ==
    << BINARY_MAGIC_0, BINARY_MAGIC_1 >> \o [k \in 1..FRAME_SIZE_RGB565 |-> P[k - 1]]

\* loop() called n times.
RECURSIVE RunLoops(_, _)
RunLoops(s, n) ==
    IF n = 0 THEN s ELSE CHOOSE r \in { RunLoops(t, n - 1) : t \in {loop(s)} } : TRUE

\* ------------------------------------------------------------------------
\* Actions of the receive context
\* ------------------------------------------------------------------------
ZeroArray(n) == [i \in 0..(n - 1) |-> 0]

ZeroPlanes(c) ==
    [r \in 0..((c.height \div 2) - 1) |->
        [b \in 0..(COLOR_DEPTH - 1) |-> [i \in 0..(c.width - 1) |-> 0]]]

\* The state setup() and hub75_gpio_init() leave, with planes in bcm_planes.
InitCore0With(c, planes) ==
    /\ cfg = c
    /\ rx = << >>
    /\ tx = << >>
    /\ fed = << >>
    /\ recv_buffer = ZeroArray(RecvBufferSizeOf(c))
    /\ recv_pos = 0
    /\ binary_mode = FALSE
    /\ binary_bytes_remaining = 0
    /\ frame_buffer = [t \in 0..1 |-> ZeroArray(FrameSizeOf(c))]
    /\ write_buf = 0
    /\ read_buf = 0
    /\ new_frame = FALSE
    /\ bcm_planes = planes
    /\ wr = NoWrites
    /\ handed = NotHanded
    /\ conv = ConvIdle

InitCore0(c) == InitCore0With(c, ZeroPlanes(c))

\* The same state as a record of the variables of core 0.
InitialCore0(c) ==
    [ rx |-> << >>, tx |-> << >>,
      recv_buffer |-> ZeroArray(RecvBufferSizeOf(c)), recv_pos |-> 0,
      binary_mode |-> FALSE, binary_bytes_remaining |-> 0,
      frame_buffer |-> [t \in 0..1 |-> ZeroArray(FrameSizeOf(c))],
      write_buf |-> 0, read_buf |-> 0, new_frame |-> FALSE,
      bcm_planes |-> ZeroPlanes(c), wr |-> NoWrites, handed |-> NotHanded ]

\* The variables of core 0 hold record s.
Core0Is(s) ==
    /\ rx = s.rx
    /\ tx = s.tx
    /\ recv_buffer = s.recv_buffer
    /\ recv_pos = s.recv_pos
    /\ binary_mode = s.binary_mode
    /\ binary_bytes_remaining = s.binary_bytes_remaining
    /\ frame_buffer = s.frame_buffer
    /\ write_buf = s.write_buf
    /\ read_buf = s.read_buf
    /\ new_frame = s.new_frame
    /\ bcm_planes = s.bcm_planes
    /\ wr = s.wr
    /\ handed = s.handed
    /\ conv = ConvIdle

\* The host sends bytes data; they queue in the USB CDC receive buffer.
Arrive(data) ==
    /\ rx' = rx \o data
    /\ fed' = fed \o data
    /\ UNCHANGED << cfg, tx, recv_buffer, recv_pos, binary_mode,
                    binary_bytes_remaining, frame_buffer, write_buf, read_buf,
                    new_frame, bcm_planes, wr, handed, conv, scanVars, b64 >>

\* One call of loop() on core 0.
Loop ==
    \E s \in {loop(Core0)} :
       /\ conv.pc = "idle"
       /\ rx' = s.rx
       /\ tx' = s.tx
       /\ recv_buffer' = s.recv_buffer
       /\ recv_pos' = s.recv_pos
       /\ binary_mode' = s.binary_mode
       /\ binary_bytes_remaining' = s.binary_bytes_remaining
       /\ frame_buffer' = s.frame_buffer
       /\ write_buf' = s.write_buf
       /\ read_buf' = s.read_buf
       /\ new_frame' = s.new_frame
       /\ bcm_planes' = s.bcm_planes
       /\ wr' = s.wr
       /\ handed' = s.handed
       /\ UNCHANGED << cfg, fed, conv, scanVars, b64 >>

\* The same loop() taken write by write, for the interleavings of core 1 with
\* convert_to_bcm(). First the hand-over: if (new_frame) { read_buf = write_buf;
\* new_frame = false; and convert_to_bcm() is entered.
TakeStart ==
    /\ conv.pc = "idle"
    /\ new_frame
    /\ read_buf' = write_buf
    /\ new_frame' = FALSE
    /\ handed' = TakeFrame(Core0).handed
    /\ conv' = [pc |-> "convert", row |-> 0, x |-> 0, bit |-> 0]
    /\ UNCHANGED << cfg, rx, tx, fed, recv_buffer, recv_pos, binary_mode,
                    binary_bytes_remaining, frame_buffer, write_buf, bcm_planes, wr,
                    scanVars, b64 >>

\* Where convert_to_bcm() stands after the write at (row, x, bit): bit is the
\* innermost loop, x the middle one, row the outer one.
ConvNext(c) ==
    IF c.bit + 1 < COLOR_DEPTH THEN [c EXCEPT !.bit = @ + 1]
    ELSE IF c.x + 1 < DISPLAY_WIDTH THEN [c EXCEPT !.x = @ + 1, !.bit = 0]
    ELSE IF c.row + 1 < SCAN_ROWS THEN [c EXCEPT !.row = @ + 1, !.x = 0, !.bit = 0]
    ELSE ConvIdle

\* bcm_planes[row][bit][x] = packed; after the last write convert_to_bcm() returns
\* and loop() goes on with the serial port.
ConvertStep ==
    /\ conv.pc = "convert"
    /\ LET packed == PackedBits(ChannelValues(frame_buffer[read_buf], conv.row, conv.x),
                                conv.bit)
           planes == [bcm_planes EXCEPT ![conv.row][conv.bit][conv.x] = packed]
       IN \E s \in {loop([Core0 EXCEPT !.bcm_planes = planes])} :
          IF ConvNext(conv) # ConvIdle
          THEN /\ bcm_planes' = planes
               /\ conv' = ConvNext(conv)
               /\ UNCHANGED << rx, tx, recv_buffer, recv_pos, binary_mode,
                               binary_bytes_remaining, frame_buffer, write_buf,
                               read_buf, new_frame, wr, handed >>
          ELSE /\ conv' = ConvIdle
               /\ rx' = s.rx
               /\ tx' = s.tx
               /\ recv_buffer' = s.recv_buffer
               /\ recv_pos' = s.recv_pos
               /\ binary_mode' = s.binary_mode
               /\ binary_bytes_remaining' = s.binary_bytes_remaining
               /\ frame_buffer' = s.frame_buffer
               /\ write_buf' = s.write_buf
               /\ read_buf' = s.read_buf
               /\ new_frame' = s.new_frame
               /\ bcm_planes' = s.bcm_planes
               /\ wr' = s.wr
               /\ handed' = s.handed
    /\ UNCHANGED << cfg, fed, scanVars, b64 >>

\* ------------------------------------------------------------------------
\* Core 1: hub75_refresh(), the PIO shifter and the panel
\* ------------------------------------------------------------------------
N_ADDR_PINS == 4

\* The value set_row_address(row) leaves on pins ADDR_A (bit 0) .. ADDR_D (bit 3).
set_row_address(r) ==
    BitOf(r, 0) + 2 * BitOf(r, 1) + 4 * BitOf(r, 2) + 8 * BitOf(r, 3)

\* A hold time linear in the bit index.
delay_us_linear(b) == b + 1

\* uint32_t delay_us = 1 << bit;
delay_us(b) == Pow2(b)

\* The panel's shift register holds the last DISPLAY_WIDTH bytes clocked in;
\* panel.clocked counts the rising clock edges since the last latch.
ClockIn(sr, v) ==
    LET t == Append(sr, v)
    IN IF Len(t) > DISPLAY_WIDTH THEN Tail(t) ELSE t

\* No byte of this refresh cycle has been read yet; kinds are the past cycles'.
NoTear == [sawOld |-> FALSE, sawNew |-> FALSE, kinds |-> << >>]

\* The frame published last.
NewFrame == IF new_frame THEN frame_buffer[write_buf] ELSE frame_buffer[read_buf]
\* The frame converted before it (the other buffer once the new one is taken).
OldFrame == IF new_frame THEN frame_buffer[read_buf] ELSE frame_buffer[1 - read_buf]

\* Refresh reads byte v of bcm_planes[r][b][col]: where the two frames' planes
\* differ, v is a byte of the old frame or a byte of the new one.
ReadByte(t, r, b, col, v) ==
    LET old == PackedBits(ChannelValues(OldFrame, r, col), b)
        new == PackedBits(ChannelValues(NewFrame, r, col), b)
    IN [t EXCEPT !.sawOld = @ \/ (old # new /\ v = old),
                 !.sawNew = @ \/ (old # new /\ v = new)]

\* The kind of the refresh cycle that ends.
CycleKind(t) ==
    IF t.sawOld /\ t.sawNew THEN "torn"
    ELSE IF t.sawOld THEN "old"
    ELSE IF t.sawNew THEN "new"
    ELSE "same"

LastN(q, n) == IF Len(q) > n THEN SubSeq(q, Len(q) - n + 1, Len(q)) ELSE q

\* hub75_refresh() returns: the cycle's kind joins the last MaxCycles kinds.
EndCycle(t) ==
    [sawOld |-> FALSE, sawNew |-> FALSE,
     kinds |-> LastN(Append(t.kinds, CycleKind(t)), MaxCycles)]

NoScan ==
    [visited |-> << >>, steps |-> << >>,
     lit |-> [r \in 0..(SCAN_ROWS - 1) |-> [b \in 0..(COLOR_DEPTH - 1) |-> 0]]]

\* The state setup1() leaves: the boot screen ended with solid white (0x3F) on the
\* last scan row, output disabled, latch and clock low; the PIO program is loaded
\* and waits at its first instruction.
InitCore1 ==
    /\ pc1 = "oe_off"
    /\ bit = 0
    /\ row = 0
    /\ x = 0
    /\ gpio = [OE |-> 1, LAT |-> 0, CLK |-> 0, RGB |-> 63,
               ADDR |-> set_row_address(SCAN_ROWS - 1)]
    /\ tx_fifo = << >>
    /\ pio_sm = [pc |-> 0, osr |-> 0, full |-> FALSE]
    /\ panel = [sr |-> [i \in 1..DISPLAY_WIDTH |-> 63],
                latched |-> [i \in 1..DISPLAY_WIDTH |-> 63],
                clocked |-> 0]
    /\ scan = NoScan
    /\ tear = NoTear

\* 1. sio_hw->gpio_set = OE_MASK; and the start of the column loop.
OeOff ==
    /\ pc1 = "oe_off"
    /\ gpio' = [gpio EXCEPT !.OE = 1]
    /\ x' = DISPLAY_WIDTH - 1
    /\ pc1' = "shift"
    /\ scan' = [visited |-> (IF bit = 0 /\ row = 0 THEN << >> ELSE scan.visited)
                                \o << << bit, row >> >>,
                steps |-> << << "oe", 1 >> >>,
                lit |-> IF bit = 0 /\ row = 0 THEN NoScan.lit ELSE scan.lit]
    /\ UNCHANGED << cfg, recvVars, b64, tear, bit, row, tx_fifo, pio_sm, panel >>

\* 2. (PIO) while (pio_sm_is_tx_fifo_full(..)); pio_sm_put(.., row_data[x]);
ShiftPut ==
    /\ pc1 = "shift"
    /\ cfg.pio
    /\ Len(tx_fifo) < PIO_FIFO_DEPTH
    /\ tx_fifo' = Append(tx_fifo, bcm_planes[row][bit][x])
    /\ scan' = [scan EXCEPT !.steps = Append(@, << "shift", x, bcm_planes[row][bit][x] >>)]
    /\ tear' = ReadByte(tear, row, bit, x, bcm_planes[row][bit][x])
    /\ x' = x - 1
    /\ pc1' = IF x - 1 >= 0 THEN "shift" ELSE "wait"
    /\ UNCHANGED << cfg, recvVars, b64, bit, row, gpio, pio_sm, panel >>

\* 2. (CPU) shift_out_pixel(row_data[x]): RGB pins, then one clock pulse.
ShiftPixel ==
    /\ pc1 = "shift"
    /\ ~cfg.pio
    /\ LET data == bcm_planes[row][bit][x]
       IN /\ gpio' = [gpio EXCEPT !.RGB = data % 64, !.CLK = 0]
          /\ panel' = [panel EXCEPT !.sr = ClockIn(@, data % 64), !.clocked = @ + 1]
          /\ scan' = [scan EXCEPT !.steps = Append(@, << "shift", x, data >>)]
          /\ tear' = ReadByte(tear, row, bit, x, data)
    /\ x' = x - 1
    /\ pc1' = IF x - 1 >= 0 THEN "shift" ELSE "addr"
    /\ UNCHANGED << cfg, recvVars, b64, bit, row, tx_fifo, pio_sm >>

\* (PIO) while (!pio_sm_is_tx_fifo_empty(..));
WaitEmpty ==
    /\ pc1 = "wait"
    /\ tx_fifo = << >>
    /\ pc1' = "addr"
    /\ UNCHANGED << cfg, recvVars, b64, tear, bit, row, x, gpio, tx_fifo, pio_sm, panel, scan >>

\* 3. set_row_address(row);
SetRowAddress ==
    /\ pc1 = "addr"
    /\ gpio' = [gpio EXCEPT !.ADDR = set_row_address(row)]
    /\ scan' = [scan EXCEPT !.steps = Append(@, << "addr", row >>)]
    /\ pc1' = "lat_hi"
    /\ UNCHANGED << cfg, recvVars, b64, tear, bit, row, x, tx_fifo, pio_sm, panel >>

\* A latch that waits until core 0 is outside convert_to_bcm().
LatchHigh_locked ==
    /\ pc1 = "lat_hi"
    /\ conv.pc = "idle"
    /\ gpio' = [gpio EXCEPT !.LAT = 1]
    /\ panel' = [panel EXCEPT !.latched = panel.sr, !.clocked = 0]
    /\ scan' = [scan EXCEPT !.steps = Append(@, << "lat", 1 >>)]
    /\ pc1' = "lat_lo"
    /\ UNCHANGED << cfg, recvVars, b64, tear, bit, row, x, tx_fifo, pio_sm >>

\* 4. sio_hw->gpio_set = LAT_MASK; the panel latches its shift register.
LatchHigh ==
    /\ pc1 = "lat_hi"
    /\ gpio' = [gpio EXCEPT !.LAT = 1]
    /\ panel' = [panel EXCEPT !.latched = panel.sr, !.clocked = 0]
    /\ scan' = [scan EXCEPT !.steps = Append(@, << "lat", 1 >>)]
    /\ pc1' = "lat_lo"
    /\ UNCHANGED << cfg, recvVars, b64, tear, bit, row, x, tx_fifo, pio_sm >>

\* An implementation of step 4's second half that leaves the latch asserted.
LatchLow_stuck ==
    /\ pc1 = "lat_lo"
    /\ scan' = [scan EXCEPT !.steps = Append(@, << "lat", 0 >>)]
    /\ pc1' = "oe_on"
    /\ UNCHANGED << cfg, recvVars, b64, tear, bit, row, x, gpio, tx_fifo, pio_sm, panel >>

\* 4. sio_hw->gpio_clr = LAT_MASK;
LatchLow ==
    /\ pc1 = "lat_lo"
    /\ gpio' = [gpio EXCEPT !.LAT = 0]
    /\ scan' = [scan EXCEPT !.steps = Append(@, << "lat", 0 >>)]
    /\ pc1' = "oe_on"
    /\ UNCHANGED << cfg, recvVars, b64, tear, bit, row, x, tx_fifo, pio_sm, panel >>

\* 5. sio_hw->gpio_clr = OE_MASK;
OeOn ==
    /\ pc1 = "oe_on"
    /\ gpio' = [gpio EXCEPT !.OE = 0]
    /\ scan' = [scan EXCEPT !.steps = Append(@, << "oe", 0 >>)]
    /\ pc1' = "delay"
    /\ UNCHANGED << cfg, recvVars, b64, tear, bit, row, x, tx_fifo, pio_sm, panel >>

\* 6. delayMicroseconds(delay_us); the row is lit for that long if output is enabled.
Delay ==
    /\ pc1 = "delay"
    /\ scan' = [scan EXCEPT
                  !.steps = Append(@, << "hold", delay_us(bit) >>),
                  !.lit[row][bit] = IF gpio.OE = 0 THEN @ + delay_us(bit) ELSE @]
    /\ pc1' = "oe_off2"
    /\ UNCHANGED << cfg, recvVars, b64, tear, bit, row, x, gpio, tx_fifo, pio_sm, panel >>

\* 7. sio_hw->gpio_set = OE_MASK; then row++, bit++ of the two for loops; after the
\* last pair hub75_refresh() returns and loop1() calls it again.
OeOffNext ==
    /\ pc1 = "oe_off2"
    /\ gpio' = [gpio EXCEPT !.OE = 1]
    /\ scan' = [scan EXCEPT !.steps = Append(@, << "oe", 1 >>)]
    /\ IF row + 1 < SCAN_ROWS
       THEN row' = row + 1 /\ bit' = bit
       ELSE /\ row' = 0
            /\ bit' = IF bit + 1 < COLOR_DEPTH THEN bit + 1 ELSE 0
    /\ tear' = IF row + 1 < SCAN_ROWS \/ bit + 1 < COLOR_DEPTH THEN tear ELSE EndCycle(tear)
    /\ pc1' = "oe_off"
    /\ UNCHANGED << cfg, recvVars, b64, x, tx_fifo, pio_sm, panel >>

\* One instruction of the PIO program hub75_data:
\*   0: pull block    side 0      (a no-op when autopull has already refilled OSR)
\*   1: out pins, 6   side 0 [7]  (autopull threshold 6: OSR refills from the FIFO)
\*   2: jmp 0         side 1 [7]  (rising clock edge: the panel shifts the pins in)
PioStep ==
    /\ cfg.pio
    /\ \/ /\ pio_sm.pc = 0
          /\ pio_sm.full
          /\ pio_sm' = [pio_sm EXCEPT !.pc = 1]
          /\ gpio' = [gpio EXCEPT !.CLK = 0]
          /\ UNCHANGED << tx_fifo, panel >>
       \/ /\ pio_sm.pc = 0
          /\ ~pio_sm.full
          /\ tx_fifo # << >>
          /\ pio_sm' = [pc |-> 1, osr |-> Head(tx_fifo), full |-> TRUE]
          /\ tx_fifo' = Tail(tx_fifo)
          /\ gpio' = [gpio EXCEPT !.CLK = 0]
          /\ UNCHANGED panel
       \/ /\ pio_sm.pc = 0
          /\ ~pio_sm.full
          /\ tx_fifo = << >>
          /\ gpio.CLK = 1
          /\ gpio' = [gpio EXCEPT !.CLK = 0]
          /\ UNCHANGED << pio_sm, tx_fifo, panel >>
       \/ /\ pio_sm.pc = 1
          /\ gpio' = [gpio EXCEPT !.RGB = pio_sm.osr % 64, !.CLK = 0]
          /\ IF tx_fifo # << >>
             THEN /\ pio_sm' = [pc |-> 2, osr |-> Head(tx_fifo), full |-> TRUE]
                  /\ tx_fifo' = Tail(tx_fifo)
             ELSE /\ pio_sm' = [pc |-> 2, osr |-> Shr(pio_sm.osr, 6), full |-> FALSE]
                  /\ UNCHANGED tx_fifo
          /\ UNCHANGED panel
       \/ /\ pio_sm.pc = 2
          /\ gpio' = [gpio EXCEPT !.CLK = 1]
          /\ panel' = [panel EXCEPT !.sr = ClockIn(@, gpio.RGB), !.clocked = @ + 1]
          /\ pio_sm' = [pio_sm EXCEPT !.pc = 0]
          /\ UNCHANGED tx_fifo
    /\ UNCHANGED << cfg, recvVars, b64, tear, pc1, bit, row, x, scan >>

\* ------------------------------------------------------------------------
\* A single call of the Base64 decoder
\* ------------------------------------------------------------------------
\* Bytes of the inputs tried: '\n', '/', '=', 'A', 'f', 0xFF
DecodeBytes == {10, 47, 61, 65, 102, 255}
\* Bytes of the payloads encoded: 0x00, 0x01, 0x80, 0xFF
PayloadBytes == {0, 1, 128, 255}

ArrayOf(q) == [i \in 0..(Len(q) - 1) |-> q[i + 1]]
SeqsUpTo(S, n) == UNION { [1..k -> S] : k \in 0..n }

B64Idle == [phase |-> "idle"]

\* The calls tried: any input of DecodeBytes with any max_output, and the standard
\* encoding of any payload with max_output the payload's length.
B64Calls ==
    { [phase |-> "call", input |-> ArrayOf(q), len |-> Len(q), max_output |-> m,
       payload |-> << >>, encoded |-> FALSE] :
          q \in SeqsUpTo(DecodeBytes, MaxDecodeLen), m \in 0..MaxDecodeOut }
    \cup
    { [phase |-> "call", input |-> ArrayOf(B64Encode(ArrayOf(q), Len(q))),
       len |-> B64EncodedLen(Len(q)), max_output |-> Len(q),
       payload |-> q, encoded |-> TRUE] :
          q \in SeqsUpTo(PayloadBytes, MaxPayload) }

\* base64_decode_length(input, len) and base64_decode(input, len, output, max_output)
\* on an output array of max_output zero bytes.
Decode ==
    /\ b64.phase = "call"
    /\ b64' = [phase |-> "done", input |-> b64.input, len |-> b64.len,
               max_output |-> b64.max_output, payload |-> b64.payload,
               encoded |-> b64.encoded,
               length |-> base64_decode_length(b64.input, b64.len),
               res |-> base64_decode(b64.input, b64.len,
                                     ZeroArray(b64.max_output), b64.max_output)]
    /\ UNCHANGED << cfg, recvVars, scanVars >>

\* ------------------------------------------------------------------------
\* Specifications
\* ------------------------------------------------------------------------
\* Byte-wise specification of the receive context: the host sends any bytes of
\* Bytes, one at a time, and loop() runs at any moment.
ArriveByte ==
    /\ Len(fed) < MaxStream
    /\ Len(rx) < MaxAvail
    /\ \E c \in Bytes : Arrive(<< c >>)

InitRecv ==
    /\ InitCore0(RecvConfig)
    /\ InitCore1
    /\ b64 = B64Idle
    /\ \A c \in BuildConfigs : TextFrameFits(c) <=> TextFrameFits(RecvConfig)
NextRecv == ArriveByte \/ Loop
SpecRecv == InitRecv /\ [][NextRecv]_vars

\* The decoder as a function: one call on each input of B64Calls.
InitB64 ==
    /\ InitCore0(RecvConfig)
    /\ InitCore1
    /\ b64 \in B64Calls
NextB64 == Decode
SpecB64 == InitB64 /\ [][NextB64]_vars

\* Every write of the receive side: the byte-wise receive context, and the decoder
\* called on its own.
InitWrites == InitRecv \/ InitB64
NextWrites == (b64 = B64Idle /\ NextRecv) \/ Decode
SpecWrites == InitWrites /\ [][NextWrites]_vars

\* Text lines only: the host sends 'A' and '\n', up to MaxText bytes, so that a
\* line longer than the accumulator can be sent and terminated.
TextBytes == {10, 65}
ArriveText ==
    /\ Len(fed) < MaxText
    /\ Len(rx) < MaxAvail
    /\ \E c \in TextBytes : Arrive(<< c >>)
NextText == ArriveText \/ Loop
SpecText == InitRecv /\ [][NextText]_vars

\* Frame with the 16-bit pixel at position pos replaced by p (little-endian).
WithPixel(frame, pos, p) ==
    [i \in DOMAIN frame |->
        IF i = 2 * pos THEN p % 256
        ELSE IF i = 2 * pos + 1 THEN p \div 256
        ELSE frame[i]]

\* Pixels converted: each channel swept over all its values, the other two
\* channels all zero or all one.
SweepPixels ==
    UNION { { v * 2048, v * 2048 + 2047, v, 65504 + v } : v \in 0..31 }
    \cup UNION { { v * 32, 63519 + v * 32 } : v \in 0..63 }

\* Pixels put at every position: black, white, red, green, blue and a mixed one.
SamplePixels == {0, 65535, 63488, 2016, 31, 4660}

BcmPattern == [i \in 0..(FrameSizeOf(BcmConfig) - 1) |-> (i * 73 + 5) % 256]

\* Frames converted: a sample pixel at any position of a black or patterned frame,
\* and a swept pixel at the first position of the upper and of the lower half.
BcmFrames ==
    { WithPixel(base, pos, p) :
        base \in { ZeroArray(FrameSizeOf(BcmConfig)), BcmPattern },
        pos \in 0..(BcmConfig.width * BcmConfig.height - 1),
        p \in SamplePixels }
    \cup
    { WithPixel(BcmPattern, pos, p) :
        pos \in { 0, BcmConfig.width * (BcmConfig.height \div 2) },
        p \in SweepPixels }

\* The conversion as a function: a raw binary frame of BcmFrames has been received
\* and published by two calls of loop(); the next call takes and converts it.
InitBcm ==
    /\ cfg = BcmConfig
    /\ \E P \in BcmFrames :
          /\ fed = BinaryFrame(P)
          /\ Core0Is(RunLoops([InitialCore0(BcmConfig) EXCEPT !.rx = BinaryFrame(P)], 2))
    /\ InitCore1
    /\ b64 = B64Idle
NextBcm == Loop
SpecBcm == InitBcm /\ [][NextBcm]_vars

\* Frames whose bit planes the refresh specification scans.
ScanFrames(c) ==
    { ZeroArray(FrameSizeOf(c)),
      [i \in 0..(FrameSizeOf(c) - 1) |-> 255],
      [i \in 0..(FrameSizeOf(c) - 1) |-> (i * 73 + 5) % 256] }

\* The refresh context alone, PIO and bit-banged, scanning the planes of one frame.
InitScan ==
    /\ \E c \in ScanConfigs :
          \E f \in ScanFrames(c) : InitCore0With(c, convert_to_bcm(f))
    /\ InitCore1
    /\ b64 = B64Idle
NextScan ==
    \/ OeOff \/ ShiftPut \/ ShiftPixel \/ WaitEmpty \/ SetRowAddress
    \/ LatchHigh \/ LatchLow \/ OeOn \/ Delay \/ OeOffNext \/ PioStep
SpecScan == InitScan /\ [][NextScan]_vars

\* The host sends up to MaxItems items, each a raw binary frame or a text line,
\* in pieces of at most MaxAvail bytes; loop() runs at any time in between.
\* The two payloads hold 0xFF, 0x00, '\n' and '\r' as data.
StreamPayloads ==
    { [i \in 0..(FrameSizeOf(RecvConfig) - 1) |-> << 255, 0, 10, 65 >>[(i % 4) + 1]],
      [i \in 0..(FrameSizeOf(RecvConfig) - 1) |-> << 65, 13, 0, 255 >>[(i % 4) + 1]] }
StreamItems ==
    { << BINARY_MAGIC_0, BINARY_MAGIC_1 >> \o [k \in 1..FrameSizeOf(RecvConfig) |-> P[k - 1]] :
          P \in StreamPayloads }
    \cup { << 65, 65, CH_NEWLINE >> }

RECURSIVE Streams(_)
Streams(n) ==
    IF n = 0 THEN { << >> }
    ELSE Streams(n - 1) \cup { q \o item : q \in Streams(n - 1), item \in StreamItems }

ArriveStream ==
    \E S \in Streams(MaxItems) : \E n \in 1..MaxAvail :
       /\ Len(fed) + n <= Len(S)
       /\ SubSeq(S, 1, Len(fed)) = fed
       /\ Arrive(SubSeq(S, Len(fed) + 1, Len(fed) + n))

InitStream == InitRecv
NextStream == ArriveStream \/ Loop
SpecStream == InitStream /\ [][NextStream]_vars

\* The same with the scheduling of the Arduino core: main() calls loop() for ever.
\* Nothing is assumed of the host.
InitLoop == InitStream
NextLoop == NextStream
SpecLoop == InitLoop /\ [][NextLoop]_vars /\ WF_vars(Loop)

\* Boot: core 0 has left setup() and calls loop(); core 1, in setup1(), has run
\* hub75_gpio_init() and is about to show the boot screen. boot_complete is
\* written by setup1() and read nowhere, so nothing makes loop() wait for it.
\* The colours of show_boot_screen(), in order, as masks of the six RGB pins.
BootColors ==
    << [pc |-> "red", mask |-> 9], [pc |-> "green", mask |-> 18],
       [pc |-> "blue", mask |-> 36], [pc |-> "white", mask |-> 63] >>

\* display_solid_color(color_mask, duration_ms): every row is shifted full of
\* color_mask, latched and lit; it ends on the last scan row with output disabled.
SolidColor ==
    \E k \in DOMAIN BootColors :
       /\ pc1 = BootColors[k].pc
       /\ gpio' = [OE |-> 1, LAT |-> 0, CLK |-> 0, RGB |-> BootColors[k].mask,
                   ADDR |-> set_row_address(SCAN_ROWS - 1)]
       /\ panel' = [sr |-> [i \in 1..DISPLAY_WIDTH |-> BootColors[k].mask],
                    latched |-> [i \in 1..DISPLAY_WIDTH |-> BootColors[k].mask],
                    clocked |-> 0]
       /\ pc1' = IF k < Len(BootColors) THEN BootColors[k + 1].pc ELSE "clear"
       /\ UNCHANGED << cfg, recvVars, b64, tear, bit, row, x, tx_fifo, pio_sm, scan >>

\* show_boot_screen(): memset(bcm_planes, 0, sizeof(bcm_planes)); then setup1()
\* sets boot_complete, loads the PIO program and returns.
BootClear ==
    /\ pc1 = "clear"
    /\ bcm_planes' = ZeroPlanes(cfg)
    /\ pc1' = "oe_off"
    /\ UNCHANGED << cfg, rx, tx, fed, recv_buffer, recv_pos, binary_mode,
                    binary_bytes_remaining, frame_buffer, write_buf, read_buf,
                    new_frame, wr, handed, conv, b64, tear, bit, row, x, gpio,
                    tx_fifo, pio_sm, panel, scan >>

InitBoot ==
    /\ InitCore0(RecvConfig)
    /\ pc1 = BootColors[1].pc
    /\ bit = 0
    /\ row = 0
    /\ x = 0
    /\ gpio = [OE |-> 1, LAT |-> 0, CLK |-> 0, RGB |-> 0, ADDR |-> 0]
    /\ tx_fifo = << >>
    /\ pio_sm = [pc |-> 0, osr |-> 0, full |-> FALSE]
    /\ panel = [sr |-> [i \in 1..RecvConfig.width |-> 0],
                latched |-> [i \in 1..RecvConfig.width |-> 0],
                clocked |-> 0]
    /\ scan = NoScan
    /\ tear = NoTear
    /\ b64 = B64Idle
NextBoot == ArriveStream \/ Loop \/ SolidColor \/ BootClear
SpecBoot == InitBoot /\ [][NextBoot]_vars

\* The row scan at the two supported panel heights (DISPLAY_HEIGHT 32 and 64),
\* PIO and bit-banged, on a panel AddrWidth columns wide showing the boot planes.
SupportedHeights == { c.height : c \in BuildConfigs }
AddrConfigs ==
    { [width |-> AddrWidth, height |-> h, margin |-> RecvMargin, pio |-> p] :
          h \in SupportedHeights, p \in BOOLEAN }

InitAddr ==
    /\ \E c \in AddrConfigs : InitCore0(c)
    /\ InitCore1
    /\ b64 = B64Idle
NextAddr == NextScan
SpecAddr == InitAddr /\ [][NextAddr]_vars

\* Conversion against refresh: frame A of TearFrames was received, converted and
\* shown, frame B was received and published; core 0 then takes and converts B
\* write by write while core 1 refreshes.
TearConfigs == { [width |-> TearWidth, height |-> TearHeight, margin |-> RecvMargin,
                  pio |-> p] : p \in BOOLEAN }
TearFrames(c) ==
    { << ZeroArray(FrameSizeOf(c)), [i \in 0..(FrameSizeOf(c) - 1) |-> 255] >> }

InitTearOf(configs) ==
    \E c \in configs :
       \E f \in TearFrames(c) :
          /\ cfg = c
          /\ fed = BinaryFrame(f[1]) \o BinaryFrame(f[2])
          /\ LET shown == RunLoops([InitialCore0(c) EXCEPT !.rx = BinaryFrame(f[1])], 3)
                 published == RunLoops([shown EXCEPT !.rx = BinaryFrame(f[2])], 2)
             IN Core0Is(published)
          /\ InitCore1
          /\ b64 = B64Idle

InitTear == InitTearOf(TearConfigs)
NextTear == TakeStart \/ ConvertStep \/ NextScan
SpecTear == InitTear /\ [][NextTear]_vars

\* The same with the scheduling the hardware gives: core 1 runs nothing but
\* loop1(), which calls hub75_refresh() for ever, and the PIO state machine
\* executes an instruction whenever it is not stalled. Nothing is assumed of
\* core 0: it may stop between any two steps.
Core1Step ==
    \/ OeOff \/ ShiftPut \/ ShiftPixel \/ WaitEmpty \/ SetRowAddress
    \/ LatchHigh \/ LatchLow \/ OeOn \/ Delay \/ OeOffNext
LiveConfigs == { [width |-> LiveWidth, height |-> LiveHeight, margin |-> RecvMargin,
                  pio |-> p] : p \in BOOLEAN }
InitRefresh == InitTearOf(LiveConfigs)
NextRefresh == NextTear
SpecRefresh ==
    InitRefresh /\ [][NextRefresh]_vars /\ WF_vars(Core1Step) /\ WF_vars(PioStep)

\* ------------------------------------------------------------------------
\* Properties
\* ------------------------------------------------------------------------
Count(q, v) == Cardinality({ i \in DOMAIN q : q[i] = v })
IsPrefix(a, b) == Len(a) <= Len(b) /\ SubSeq(b, 1, Len(a)) = a
LastOf(q) == q[Len(q)]

\* Number of bytes loop() has read from the serial port so far.
Consumed == Len(fed) - Len(rx)

\* A Loop step: one call of loop() (a step that changes no byte sent by the host).
IsLoopStep == fed' = fed

\* The text line of the all-zero frame.
ZeroFrameLine == TextLine(ZeroArray(FRAME_SIZE_RGB565), FRAME_SIZE_RGB565)

\* C1: while the host is sending the Base64 line of the all-zero frame from the
\* idle state, no 'E' is emitted, and once the whole line has been read exactly
\* one 'K' has been emitted and the published frame holds the payload.
C1_TextFrameAccepted ==
    IsPrefix(fed, ZeroFrameLine) =>
        /\ Count(tx, ACK_E) = 0
        /\ (fed = ZeroFrameLine /\ rx = << >>) =>
               /\ tx = << ACK_K >>
               /\ frame_buffer[write_buf] = ZeroArray(FRAME_SIZE_RGB565)

\* Bytes of the current binary frame received so far, and the number of bytes
\* read before its payload began.
BinaryGot == FRAME_SIZE_RGB565 - binary_bytes_remaining
BinaryStart == Consumed - BinaryGot

\* The first n bytes sent end with the sentinel as loop() recognizes it: 0xFF, then
\* 0x00, with nothing but skipped '\r' bytes in between.
SentinelEndsAt(n) ==
    /\ n >= 2
    /\ fed[n] = BINARY_MAGIC_1
    /\ \E j \in 1..(n - 1) :
          /\ fed[j] = BINARY_MAGIC_0
          /\ \A k \in (j + 1)..(n - 1) : fed[k] = CH_RETURN

\* C2 (state part): in binary mode the sentinel 0xFF,0x00 precedes the payload,
\* between 1 and frameBytes bytes are still missing, the bytes received so far sit
\* verbatim at offsets 0.. of the target buffer, and the frame is not published;
\* a published binary frame holds the last frameBytes bytes read, in stream order.
C2_BinaryState ==
    /\ binary_mode =>
          /\ binary_bytes_remaining >= 1
          /\ binary_bytes_remaining <= FRAME_SIZE_RGB565
          /\ SentinelEndsAt(BinaryStart)
          /\ \A i \in 0..(BinaryGot - 1) :
                frame_buffer[1 - read_buf][i] = fed[BinaryStart + 1 + i]
          /\ ~new_frame
    /\ new_frame =>
          /\ ~binary_mode
          /\ SentinelEndsAt(Consumed - FRAME_SIZE_RGB565)
          /\ \A i \in 0..(FRAME_SIZE_RGB565 - 1) :
                frame_buffer[write_buf][i] = fed[Consumed - FRAME_SIZE_RGB565 + 1 + i]

\* C2 (step part): a call of loop() in binary mode that finds fewer bytes than are
\* missing reads them all, emits nothing and stays in binary mode; one that finds
\* the last missing byte reads exactly up to it, emits 'K' once, publishes the
\* target buffer and leaves binary mode.
C2_BinaryStep ==
    (IsLoopStep /\ binary_mode) =>
        IF Len(rx) < binary_bytes_remaining
        THEN /\ tx' = tx
             /\ rx' = << >>
             /\ binary_mode'
             /\ binary_bytes_remaining' = binary_bytes_remaining - Len(rx)
             /\ ~new_frame'
             /\ write_buf' = write_buf
        ELSE /\ tx' = Append(tx, ACK_K)
             /\ rx' = SubSeq(rx, binary_bytes_remaining + 1, Len(rx))
             /\ ~binary_mode'
             /\ new_frame'
             /\ write_buf' = 1 - read_buf

\* C2: a raw binary frame completes exactly on its frameBytes-th byte.
C2_BinaryFrameCompletes == [] C2_BinaryState /\ [][C2_BinaryStep]_vars

\* A binary frame whose payload contains '\n', '\r', 0xFF and 0x00 is published.
C2_Witness ==
    /\ new_frame
    /\ tx = << ACK_K >>
    /\ frame_buffer[write_buf] = ArrayOf(<< 10, 13, 255, 0 >>)

\* C3: every index written by the accumulator lies in recv_buffer, every index
\* written by the binary path or by base64_decode on behalf of loop() lies in a
\* frame buffer, and a call of base64_decode writes only output[0..max_output-1].
C3_WritesInBounds ==
    /\ wr.recv \subseteq 0..(RECV_BUFFER_SIZE - 1)
    /\ wr.frame \subseteq (0..1) \X (0..(FRAME_SIZE_RGB565 - 1))
    /\ b64.phase = "done" => b64.res.written \subseteq 0..(b64.max_output - 1)

\* base64_decode stopped at the capacity with every output byte written.
C3_Witness ==
    /\ b64.phase = "done"
    /\ b64.len = 4
    /\ b64.max_output = 2
    /\ b64.res.ret = 0
    /\ b64.res.written = 0..1

\* C4 (step part): a call of loop() that observes new_frame hands the frame
\* published last (frame_buffer[write_buf]) to convert_to_bcm exactly once and
\* clears the flag; a call that does not observe it hands over nothing.
C4_TakeStep ==
    IsLoopStep =>
        IF new_frame
        THEN /\ handed'.takes = handed.takes + 1
             /\ handed'.frame = frame_buffer[write_buf]
             /\ bcm_planes' = convert_to_bcm(frame_buffer[write_buf])
             /\ read_buf' = write_buf
             /\ (~new_frame' \/ Len(tx') > Len(tx))
        ELSE /\ handed' = handed
             /\ bcm_planes' = bcm_planes
             /\ (read_buf' = read_buf)

\* C4 (state part): frames are handed over at most once per publish.
C4_TakeCount ==
    handed.takes + (IF new_frame THEN 1 ELSE 0) <= Count(tx, ACK_K)

C5_Base64RoundTrip ==
    (b64.phase = "done" /\ b64.encoded) =>
        /\ b64.length = Len(b64.payload)
        /\ b64.res.ret = Len(b64.payload)
        /\ b64.res.output = ArrayOf(b64.payload)

\* A payload with one '=' of padding, as a frame has, has been decoded.
C5_Witness ==
    /\ b64.phase = "done"
    /\ b64.encoded
    /\ b64.payload = << 255, 128 >>
    /\ b64.input[b64.len - 1] = CH_PAD
    /\ b64.res.output = ArrayOf(<< 255, 128 >>)

\* C6 (step part): the latch rises only while output is disabled and stays
\* disabled, and output is enabled only while the latch is low and stays low.
C6_LatchStep ==
    /\ (gpio.LAT = 0 /\ gpio'.LAT = 1) => (gpio.OE = 1 /\ gpio'.OE = 1)
    /\ (gpio.OE = 1 /\ gpio'.OE = 0) => (gpio.LAT = 0 /\ gpio'.LAT = 0)

\* C6: whenever the latch is asserted the panel output is disabled (OE high).
C6_LatchWhileDisabled == [] (gpio.LAT = 1 => gpio.OE = 1) /\ [][C6_LatchStep]_vars

\* The latch of the last iteration of a cycle is asserted (PIO variant).
C6_Witness ==
    /\ gpio.LAT = 1
    /\ cfg.pio
    /\ bit = COLOR_DEPTH - 1
    /\ row = SCAN_ROWS - 1

\* The pairs of one cycle in order: bit outer, row inner.
CycleOrder ==
    [k \in 1..(COLOR_DEPTH * SCAN_ROWS) |->
        << (k - 1) \div SCAN_ROWS, (k - 1) % SCAN_ROWS >>]

\* The steps of the iteration for pair p, in order.
IterationSteps(p) ==
    << << "oe", 1 >> >>
    \o [k \in 1..DISPLAY_WIDTH |->
           << "shift", DISPLAY_WIDTH - k, bcm_planes[p[2]][p[1]][DISPLAY_WIDTH - k] >>]
    \o << << "addr", p[2] >>, << "lat", 1 >>, << "lat", 0 >>, << "oe", 0 >>,
          << "hold", Pow2(p[1]) >>, << "oe", 1 >> >>

RECURSIVE SumBits(_, _)
SumBits(f, n) == IF n = 0 THEN 0 ELSE f[n - 1] + SumBits(f, n - 1)

\* C7: a cycle visits the pairs (bit, row) once each, bit outer and row inner; each
\* iteration performs its steps in order; and at the end of a cycle every row has
\* been lit 2^b units for plane b, 2^depth - 1 units in all.
C7_RefreshCycle ==
    /\ IsPrefix(scan.visited, CycleOrder)
    /\ scan.visited # << >> =>
          IsPrefix(scan.steps, IterationSteps(LastOf(scan.visited)))
    /\ pc1 # "oe_off" =>
          /\ scan.visited # << >>
          /\ LastOf(scan.visited) = << bit, row >>
    /\ (pc1 = "oe_off" /\ scan.visited # << >>) =>
          scan.steps = IterationSteps(LastOf(scan.visited))
    /\ (pc1 = "oe_off" /\ bit = 0 /\ row = 0 /\ scan.visited # << >>) =>
          /\ scan.visited = CycleOrder
          /\ \A r \in 0..(SCAN_ROWS - 1) :
                /\ \A b \in 0..(COLOR_DEPTH - 1) : scan.lit[r][b] = Pow2(b)
                /\ SumBits(scan.lit[r], COLOR_DEPTH) = Pow2(COLOR_DEPTH) - 1

\* A whole cycle of the bit-banged variant has completed.
C7_Witness ==
    /\ ~cfg.pio
    /\ pc1 = "oe_off"
    /\ scan.visited = CycleOrder
    /\ \A r \in 0..(SCAN_ROWS - 1) :
          SumBits(scan.lit[r], COLOR_DEPTH) = Pow2(COLOR_DEPTH) - 1
    /\ bcm_planes # ZeroPlanes(cfg)

\* C8 (step part): a call of loop() that finds the accumulator full and one byte
\* other than '\n' and '\r' waiting emits exactly one 'E', resets recv_pos, stores
\* nothing and publishes nothing.
C8_OverflowStep ==
    ( /\ IsLoopStep
      /\ ~binary_mode
      /\ recv_pos = RECV_BUFFER_SIZE - 1
      /\ Len(rx) = 1
      /\ rx[1] \notin {CH_NEWLINE, CH_RETURN} ) =>
        /\ tx' = Append(tx, ACK_E)
        /\ recv_pos' = 0
        /\ rx' = << >>
        /\ recv_buffer' = recv_buffer
        /\ write_buf' = write_buf
        /\ new_frame' = new_frame
        /\ frame_buffer' = frame_buffer

\* C8: recv_pos never exceeds the capacity of recv_buffer, and a byte arriving at
\* a full accumulator discards the frame in progress.
C8_Overflow == [] (recv_pos <= RECV_BUFFER_SIZE - 1) /\ [][C8_OverflowStep]_vars

\* The accumulator overflowed: an 'E' was emitted with the buffer's bytes in place.
C8_Witness ==
    /\ tx = << ACK_E >>
    /\ recv_pos = 0
    /\ Consumed = RECV_BUFFER_SIZE
    /\ \A i \in 0..(RECV_BUFFER_SIZE - 2) : recv_buffer[i] = 65
    /\ \A i \in 1..Len(fed) : fed[i] = 65

\* Whether the accumulated line decodes to a whole frame.
LineDecodes ==
    /\ base64_decode_length(recv_buffer, recv_pos) = FRAME_SIZE_RGB565
    /\ base64_decode(recv_buffer, recv_pos, frame_buffer[1 - read_buf],
                     FRAME_SIZE_RGB565).ret = FRAME_SIZE_RGB565

\* C9 (step part): a call of loop() that finds a non-empty line and its '\n'
\* publishes the frame and emits 'K' if the line decodes to frameBytes bytes by
\* base64_decode_length and by base64_decode, and otherwise emits 'E' and
\* publishes nothing.
C9_NewlineStep ==
    ( /\ IsLoopStep
      /\ ~binary_mode
      /\ recv_pos > 0
      /\ rx = << CH_NEWLINE >> ) =>
        IF LineDecodes
        THEN /\ tx' = Append(tx, ACK_K)
             /\ new_frame'
             /\ write_buf' = 1 - read_buf
        ELSE /\ tx' = Append(tx, ACK_E)
             /\ new_frame' = new_frame
             /\ write_buf' = write_buf

\* C9: a text line is accepted iff it decodes to exactly frameBytes bytes.
C9_LineAccepted == [][C9_NewlineStep]_vars

\* A line that decodes to fewer bytes than a frame was rejected.
C9_Witness ==
    /\ fed = << 65, 65, 65, 65, 10 >>
    /\ rx = << >>
    /\ tx = << ACK_E >>
    /\ recv_pos = 0
    /\ ~new_frame

\* loop() called once per byte of q, each byte arriving just before its call.
RECURSIVE FeedEach(_, _)
FeedEach(s, q) ==
    IF q = << >> THEN s
    ELSE FeedEach(loop([s EXCEPT !.rx = Append(@, Head(q))]), Tail(q))

\* Payloads of the frame sent after a rejection.
NextPayloads ==
    { ZeroArray(FRAME_SIZE_RGB565),
      [i \in 0..(FRAME_SIZE_RGB565 - 1) |-> 255],
      [i \in 0..(FRAME_SIZE_RGB565 - 1) |-> IF i % 2 = 0 THEN 10 ELSE 65] }

\* State r is state s after one more accepted frame with payload P.
AcceptedAfter(s, r, P) ==
    /\ r.tx = Append(s.tx, ACK_K)
    /\ r.new_frame
    /\ r.frame_buffer[r.write_buf] = P
    /\ r.recv_pos = 0
    /\ ~r.binary_mode
    /\ r.binary_bytes_remaining = 0
    /\ r.rx = << >>

\* C10 (step part): a call of loop() that reads one byte and rejects a frame
\* leaves the decoder idle and the handoff variables as the take at the top of
\* loop() left them.
C10_RejectStep ==
    (IsLoopStep /\ Len(rx) = 1 /\ tx' = Append(tx, ACK_E)) =>
        /\ recv_pos' = 0
        /\ ~binary_mode'
        /\ binary_bytes_remaining' = 0
        /\ write_buf' = write_buf
        /\ read_buf' = TakeFrame(Core0).read_buf
        /\ new_frame' = TakeFrame(Core0).new_frame

\* C10 (state part): in every idle state with nothing waiting, after a rejection
\* as in the initial state, a well-formed frame is accepted, whether it arrives
\* at once or byte by byte.
C10_NextAccepted ==
    (rx = << >> /\ recv_pos = 0 /\ ~binary_mode /\ (tx = << >> \/ LastOf(tx) = ACK_E)) =>
        /\ binary_bytes_remaining = 0
        /\ \A P \in NextPayloads :
              /\ AcceptedAfter(Core0, FeedEach(Core0, BinaryFrame(P)), P)
              /\ AcceptedAfter(Core0,
                     RunLoops([Core0 EXCEPT !.rx = BinaryFrame(P)], 2), P)

\* C10: a rejected frame never affects the next frame attempt.
C10_RejectionIsolated == [] C10_NextAccepted /\ [][C10_RejectStep]_vars

\* Two frames in a row were rejected, the second for its length.
C10_Witness ==
    /\ tx = << ACK_E, ACK_E >>
    /\ rx = << >>
    /\ recv_pos = 0
    /\ ~binary_mode
    /\ fed = << 65, 65, 10, 65, 65, 10 >>

\* Number of terminated lines among the bytes q that hold a byte other than '\r'.
NonEmptyLines(q) ==
    Cardinality({ i \in DOMAIN q :
        /\ q[i] = CH_NEWLINE
        /\ \E j \in 1..(i - 1) :
              /\ q[j] \notin {CH_NEWLINE, CH_RETURN}
              /\ \A k \in (j + 1)..(i - 1) : q[k] # CH_NEWLINE })

\* C11: once a stream of text lines none of which is accepted has been read up
\* to a terminator, one 'E' has been emitted for each non-empty line and no 'K'.
C11_SingleErrorPerLine ==
    (rx = << >> /\ fed # << >> /\ LastOf(fed) = CH_NEWLINE /\ ~binary_mode) =>
        /\ Count(tx, ACK_K) = 0
        /\ Count(tx, ACK_E) = NonEmptyLines(fed)

\* The RGB565 pixel at position pos of frame f (row-major, little-endian).
FramePixel(f, pos) == f[2 * pos] + 256 * f[2 * pos + 1]

\* Field ch of a pixel: 1 red (5 bits at bit 11), 2 green (6 bits at bit 5),
\* 3 blue (5 bits at bit 0).
ChannelShift(ch) == << 11, 5, 0 >>[ch]
ChannelWidth(ch) == << 5, 6, 5 >>[ch]
ChannelOf(p, ch) == Shr(p, ChannelShift(ch)) % Pow2(ChannelWidth(ch))
WithChannel(p, ch, v) ==
    p + (v - ChannelOf(p, ch)) * Pow2(ChannelShift(ch))

\* gamma_tbl[c << (8 - channel width)] >> (8 - depth)
Reduced(p, ch) ==
    Shr(gamma_tbl(ChannelOf(p, ch) * Pow2(8 - ChannelWidth(ch))), 8 - COLOR_DEPTH)

\* The positions of the frame that are displayed, and where sub-pixel ch of
\* position pos goes: scan row, column and bit of the packed byte.
Positions == 0..(DISPLAY_WIDTH * 2 * SCAN_ROWS - 1)
ScanRowOf(pos) == (pos \div DISPLAY_WIDTH) % SCAN_ROWS
ColumnOf(pos) == pos % DISPLAY_WIDTH
SlotOf(pos, ch) == (ch - 1) + 3 * ((pos \div DISPLAY_WIDTH) \div SCAN_ROWS)

\* The bit of sub-pixel ch of position pos in each plane b.
PlaneBits(planes, pos, ch) ==
    [b \in 0..(COLOR_DEPTH - 1) |->
        BitOf(planes[ScanRowOf(pos)][b][ColumnOf(pos)], SlotOf(pos, ch))]

\* Number of planes in which the sub-pixel is set, and their weighted sum.
PlaneCount(planes, pos, ch) == SumBits(PlaneBits(planes, pos, ch), COLOR_DEPTH)
PlaneWeight(planes, pos, ch) ==
    SumBits([b \in 0..(COLOR_DEPTH - 1) |-> Pow2(b) * PlaneBits(planes, pos, ch)[b]],
            COLOR_DEPTH)

\* C12: after convert_to_bcm(F), bit b of each depth-reduced sub-pixel is the
\* sub-pixel's bit of plane b (red, green, blue of the upper pixel in bits 0..2, of
\* the lower pixel in bits 3..5), bits 6 and 7 are 0, and the planes of a sub-pixel
\* weighted by 2^b sum to its depth-reduced value.
C12_BcmPacking ==
    handed.takes > 0 =>
        /\ \A pos \in Positions : \A ch \in 1..3 :
              LET value == Reduced(FramePixel(handed.frame, pos), ch)
              IN /\ \A b \in 0..(COLOR_DEPTH - 1) :
                        PlaneBits(bcm_planes, pos, ch)[b] = BitOf(value, b)
                 /\ PlaneWeight(bcm_planes, pos, ch) = value
        /\ \A r \in 0..(SCAN_ROWS - 1) : \A b \in 0..(COLOR_DEPTH - 1) :
              \A col \in 0..(DISPLAY_WIDTH - 1) : bcm_planes[r][b][col] < 64

\* A frame with a pure red first pixel has been converted: red 31 reduces to 60.
C12_Witness ==
    /\ handed.takes = 1
    /\ ~new_frame
    /\ handed.frame = WithPixel(BcmPattern, 0, 63488)
    /\ [b \in 0..(COLOR_DEPTH - 1) |-> bcm_planes[0][b][0] % 8] =
           [b \in 0..(COLOR_DEPTH - 1) |-> IF b >= 2 THEN 1 ELSE 0]

\* The frame converted with channel ch of position pos one lower.
OneLower(pos, ch) ==
    LET p == FramePixel(handed.frame, pos)
    IN convert_to_bcm(WithPixel(handed.frame, pos,
                                WithChannel(p, ch, ChannelOf(p, ch) - 1)))

\* C13 as claimed: raising one channel of one pixel by one, all else fixed, never
\* lowers the number of planes in which the sub-pixel is set.
C13_PlaneCountMonotone ==
    handed.takes > 0 =>
        \A pos \in Positions : \A ch \in 1..3 :
            ChannelOf(FramePixel(handed.frame, pos), ch) > 0 =>
                PlaneCount(OneLower(pos, ch), pos, ch) <= PlaneCount(bcm_planes, pos, ch)

\* C13 amended: raising one channel of one pixel by one, all else fixed, never
\* lowers the sum over the planes b, weighted by 2^b, of the sub-pixel's bit.
C13_PlaneWeightMonotone ==
    handed.takes > 0 =>
        \A pos \in Positions : \A ch \in 1..3 :
            ChannelOf(FramePixel(handed.frame, pos), ch) > 0 =>
                PlaneWeight(OneLower(pos, ch), pos, ch) <= PlaneWeight(bcm_planes, pos, ch)

\* Red 9 after red 8: the weight rises from 3 to 4 while the count falls from 2 to 1.
C13_Witness ==
    /\ handed.takes = 1
    /\ handed.frame = WithPixel(BcmPattern, 0, 9 * 2048)
    /\ PlaneWeight(bcm_planes, 0, 1) = 4
    /\ PlaneWeight(OneLower(0, 1), 0, 1) = 3
    /\ PlaneCount(bcm_planes, 0, 1) = 1
    /\ PlaneCount(OneLower(0, 1), 0, 1) = 2

\* ------------------------------------------------------------------------
\* C14: under any interleaving of convert_to_bcm() with hub75_refresh(), one
\* published frame makes at most a single torn refresh cycle (one that shifts out
\* bytes of the old frame and bytes of the new one); the cycles before it show only
\* the old frame and the cycles after it only the new one.
\* ------------------------------------------------------------------------
KindRank(k) == IF k = "old" THEN 0 ELSE IF k = "torn" THEN 1 ELSE 2

C14_SingleTornCycle ==
    /\ Count(tear.kinds, "torn") <= 1
    /\ \A i \in 1..Len(tear.kinds) : \A j \in 1..Len(tear.kinds) :
          i < j => KindRank(tear.kinds[i]) <= KindRank(tear.kinds[j])

\* ------------------------------------------------------------------------
\* C15: byte-stuffed framing. A literal 0x00 byte ends the frame being
\* accumulated; when it arrives as a zero code byte inside a frame, the frame is
\* dropped silently: the accumulator is reset (recv_pos = 0), nothing is
\* published and no 'K' or 'E' is sent.
\* ------------------------------------------------------------------------
C15_ZeroStep ==
    (IsLoopStep /\ ~binary_mode /\ recv_pos > 0 /\ rx = << 0 >>) =>
        /\ recv_pos' = 0
        /\ tx' = tx
        /\ ~new_frame'
        /\ frame_buffer' = frame_buffer

C15_ZeroByteDropsFrame == [][C15_ZeroStep]_vars

\* ------------------------------------------------------------------------
\* C16: every pixel-shifter call has put its byte on the panel before it
\* returns. When the latch is about to be asserted for iteration (bit, row),
\* exactly DISPLAY_WIDTH bytes have been clocked into the panel since the last
\* latch, they are bcm_planes[row][bit][width-1] down to [0], and nothing is left
\* in the shifter or in its queue; in the PIO variant and the bit-banged one.
\* ------------------------------------------------------------------------
RowBytes == [i \in 1..DISPLAY_WIDTH |-> bcm_planes[row][bit][DISPLAY_WIDTH - i] % 64]

C16_ShiftedBeforeLatch ==
    pc1 = "lat_hi" =>
        /\ panel.clocked = DISPLAY_WIDTH
        /\ panel.sr = RowBytes
        /\ tx_fifo = << >>
        /\ ~pio_sm.full
        /\ pio_sm.pc = 0

\* ------------------------------------------------------------------------
\* C17: at both supported heights, once set_row_address(row) has run the row
\* address lines carry the binary value of row, so that no two scan rows of a
\* refresh cycle select the same address.
\* ------------------------------------------------------------------------
C17_AddressIsRow ==
    pc1 \in {"lat_hi", "lat_lo", "oe_on", "delay", "oe_off2"} => gpio.ADDR = row

\* ------------------------------------------------------------------------
\* C18: the refresh loop waits on nothing but the shifter's backpressure. With
\* core 1 and the shifter scheduled fairly, every refresh cycle that starts
\* completes, after exactly COLOR_DEPTH * SCAN_ROWS iterations, whatever core 0
\* does, also when core 0 stops for ever in the middle of a frame.
\* ------------------------------------------------------------------------
CycleStarted == pc1 = "shift" /\ bit = 0 /\ row = 0
CycleDone ==
    /\ pc1 = "oe_off" /\ bit = 0 /\ row = 0
    /\ scan.visited = CycleOrder
    /\ Len(scan.visited) = COLOR_DEPTH * SCAN_ROWS

C18_CycleCompletes == CycleStarted ~> CycleDone

\* Three cycles have completed while core 0 stands inside convert_to_bcm().
C18_Witness ==
    /\ CycleDone
    /\ conv.pc = "convert"
    /\ conv.bit = 1
    /\ Len(tear.kinds) = MaxCycles

\* ------------------------------------------------------------------------
\* C19: a frame is immutable once handed off. From the step that publishes it
\* until convert_to_bcm() has read it, no byte of the published buffer is
\* written; loop() writes only to the buffer that is not handed over, also when
\* a text line is rejected or a raw binary frame starts right after the publish;
\* and what is converted is exactly the payload of the frame acknowledged last.
\* ------------------------------------------------------------------------
LastPayload ==
    [i \in 0..(FRAME_SIZE_RGB565 - 1) |-> fed[Consumed - FRAME_SIZE_RGB565 + 1 + i]]

C19_HandedState ==
    /\ new_frame =>
          /\ tx # << >>
          /\ LastOf(tx) = ACK_K
          /\ frame_buffer[write_buf] = LastPayload
    /\ (~new_frame /\ handed.takes >= 1) =>
          /\ frame_buffer[read_buf] = handed.frame
          /\ bcm_planes = convert_to_bcm(handed.frame)

C19_HandedStep ==
    /\ (new_frame /\ ~IsLoopStep) => frame_buffer' = frame_buffer
    /\ (new_frame /\ IsLoopStep) =>
          /\ handed'.frame = LastPayload
          /\ bcm_planes' = convert_to_bcm(LastPayload)
          /\ frame_buffer'[write_buf] = LastPayload
    /\ IsLoopStep =>
          \A t \in 0..1 : frame_buffer'[t] # frame_buffer[t] => t = 1 - read_buf'

C19_FrameImmutable == [] C19_HandedState /\ [][C19_HandedStep]_vars

\* The first frame was published, taken and converted; a text line was then
\* rejected and the second raw binary frame is half received into the other
\* buffer.
C19_Witness ==
    /\ handed.takes = 1
    /\ tx = << ACK_K, ACK_E >>
    /\ binary_mode
    /\ BinaryGot = 2
    /\ frame_buffer[read_buf] = handed.frame
    /\ frame_buffer[1 - read_buf] # ZeroArray(FRAME_SIZE_RGB565)
    /\ handed.frame # ZeroArray(FRAME_SIZE_RGB565)

\* ------------------------------------------------------------------------
\* C20: raw binary mode is entered exactly when, in text mode, 0x00 arrives while
\* the accumulator holds one byte and that byte is 0xFF; the pair 0xFF, 0x00 at
\* any other accumulator position does not enter it. On entry recv_pos = 0,
\* binary_bytes_remaining = FRAME_SIZE_RGB565 and nothing is acknowledged; the
\* byte that follows the sentinel in the stream is the first payload byte.
\* ------------------------------------------------------------------------
SentinelComplete ==
    /\ recv_pos = 1
    /\ recv_buffer[0] = BINARY_MAGIC_0
    /\ Head(rx) = BINARY_MAGIC_1

\* A call of loop() in text mode that finds a single byte.
C20_EntryStep ==
    (IsLoopStep /\ ~binary_mode /\ Len(rx) = 1) =>
        /\ binary_mode' <=> SentinelComplete
        /\ SentinelComplete =>
              /\ recv_pos' = 0
              /\ binary_bytes_remaining' = FRAME_SIZE_RGB565
              /\ tx' = tx
              /\ rx' = << >>
              /\ frame_buffer' = frame_buffer

\* A call of loop() that enters binary mode returns at the sentinel's 0x00.
C20_SwitchStep ==
    (IsLoopStep /\ ~binary_mode /\ binary_mode') =>
        /\ recv_pos' = 0
        /\ binary_bytes_remaining' = FRAME_SIZE_RGB565
        /\ Count(tx', ACK_K) = Count(tx, ACK_K)
        /\ fed[Len(fed) - Len(rx')] = BINARY_MAGIC_1

\* In binary mode the payload bytes received are the stream bytes that follow
\* the sentinel's 0x00, none dropped and none read twice.
C20_PayloadFollows ==
    binary_mode =>
        /\ fed[BinaryStart] = BINARY_MAGIC_1
        /\ \A i \in 0..(BinaryGot - 1) :
              frame_buffer[1 - read_buf][i] = fed[BinaryStart + 1 + i]

C20_BinaryEntry ==
    [] C20_PayloadFollows /\ [][C20_EntryStep /\ C20_SwitchStep]_vars

\* 'A', 0xFF, 0x00 did not enter binary mode (the line was answered with 'E');
\* 0xFF, 0x00 at the start of the next line did.
C20_Witness ==
    /\ fed = << 65, BINARY_MAGIC_0, BINARY_MAGIC_1, CH_NEWLINE,
                BINARY_MAGIC_0, BINARY_MAGIC_1 >>
    /\ rx = << >>
    /\ binary_mode
    /\ binary_bytes_remaining = FRAME_SIZE_RGB565
    /\ recv_pos = 0
    /\ tx = << ACK_E >>

\* ------------------------------------------------------------------------
\* C21: 'K' is sent in exactly the calls of loop() that set new_frame, once; the
\* next call converts the acknowledged frame and clears new_frame before it
\* reads a byte; with loop() called for ever every acknowledged frame is
\* converted, and there are never more conversions than 'K' bytes sent.
\* ------------------------------------------------------------------------
Acks == Count(tx, ACK_K)

C21_AckStep ==
    IsLoopStep =>
        /\ new_frame' <=> Count(tx', ACK_K) = Acks + 1
        /\ ~new_frame' => Count(tx', ACK_K) = Acks
        /\ new_frame =>
              /\ handed'.takes = handed.takes + 1
              /\ bcm_planes' = convert_to_bcm(frame_buffer[write_buf])
              /\ Len(rx') = Len(rx) => ~new_frame'

C21_Conversions == handed.takes + (IF new_frame THEN 1 ELSE 0) = Acks

C21_AckThenConvert ==
    /\ [] C21_Conversions
    /\ [][C21_AckStep]_vars
    /\ \A n \in 1..MaxItems : (Acks = n) ~> (handed.takes = n /\ ~new_frame)

\* Two frames were acknowledged and both have been converted, the second one
\* after the host had stopped sending.
C21_Witness ==
    /\ tx = << ACK_K, ACK_K >>
    /\ handed.takes = 2
    /\ ~new_frame
    /\ rx = << >>
    /\ bcm_planes = convert_to_bcm(LastPayload)

\* ------------------------------------------------------------------------
\* C22: while a raw binary frame is being received the target buffer
\* 1 - read_buf stays the same: new_frame is false and read_buf does not change
\* from the first payload byte to the last, so the whole frame lands in one
\* buffer, and never in the one read_buf designates.
\* ------------------------------------------------------------------------
C22_Receiving ==
    (0 < binary_bytes_remaining /\ binary_bytes_remaining < FRAME_SIZE_RGB565) =>
        /\ binary_mode
        /\ ~new_frame
        /\ wr.frame \cap ({1 - read_buf} \X (0..(BinaryGot - 1)))
               = {1 - read_buf} \X (0..(BinaryGot - 1))
        /\ \A i \in 0..(BinaryGot - 1) :
              frame_buffer[1 - read_buf][i] = fed[BinaryStart + 1 + i]

C22_ReceiveStep ==
    (IsLoopStep /\ binary_mode) =>
        /\ read_buf' = read_buf
        /\ frame_buffer'[read_buf] = frame_buffer[read_buf]
        /\ ~binary_mode' =>
              /\ write_buf' = 1 - read_buf
              /\ \A i \in 0..(FRAME_SIZE_RGB565 - 1) :
                    frame_buffer'[1 - read_buf][i] = fed[BinaryStart + 1 + i]

C22_SingleTarget == [] C22_Receiving /\ [][C22_ReceiveStep]_vars

\* The first frame went to buffer 1 and is being shown; all but the last byte of
\* the second frame have arrived in buffer 0.
C22_Witness ==
    /\ handed.takes = 1
    /\ read_buf = 1
    /\ binary_mode
    /\ binary_bytes_remaining = 1
    /\ frame_buffer[1] = handed.frame
    /\ \A i \in 0..(BinaryGot - 1) : frame_buffer[0][i] = fed[BinaryStart + 1 + i]
    /\ frame_buffer[0] # frame_buffer[1]

\* ------------------------------------------------------------------------
\* C23: binary_bytes_remaining never exceeds FRAME_SIZE_RGB565, and between
\* calls of loop() binary_mode holds exactly when binary_bytes_remaining > 0.
\* With a link read that returns no more than was asked, none of the three
\* error exits of the binary path is taken: a call of loop() that starts in
\* binary mode sends no 'E'.
\* ------------------------------------------------------------------------
C23_Accounting ==
    /\ binary_bytes_remaining <= FRAME_SIZE_RGB565
    /\ binary_mode <=> binary_bytes_remaining > 0

C23_BinaryCallStep ==
    (IsLoopStep /\ binary_mode) =>
        /\ Count(tx', ACK_E) = Count(tx, ACK_E)
        /\ tx' \in {tx, Append(tx, ACK_K)}
        /\ recv_pos' = recv_pos
        /\ binary_bytes_remaining' =
              binary_bytes_remaining - Min(Len(rx), binary_bytes_remaining)

C23_NoBinaryError == [] C23_Accounting /\ [][C23_BinaryCallStep]_vars

\* A frame was completed by a call of loop() that found more bytes than were
\* missing: it read up to the frame's last byte and left the rest.
C23_Witness ==
    /\ tx = << ACK_K >>
    /\ new_frame
    /\ ~binary_mode
    /\ binary_bytes_remaining = 0
    /\ Len(rx) >= 2
    /\ Consumed = FRAME_SIZE_RGB565 + 2

\* ------------------------------------------------------------------------
\* C24: once loop() accepts and converts frames, bcm_planes and frame_buffer are
\* written by core 0 only; nothing that runs on core 1 (hub75_gpio_init,
\* show_boot_screen, setup1) clears them meanwhile, so the bit-planes of an
\* acknowledged frame stay equal to its encoding until the next frame is
\* converted.
\* ------------------------------------------------------------------------
C24_PlanesKept ==
    /\ handed.takes >= 1 => bcm_planes = convert_to_bcm(handed.frame)
    /\ new_frame => frame_buffer[write_buf] = LastPayload

====
